---- MODULE Spec2Model ----
(***************************************************************************)
(* A model of src/sudoku.py: the board queries of class Sudoku and the      *)
(* deduction rules and fixpoint driver of class Solver.                     *)
(*                                                                          *)
(* The board is a function from cells <<row, col>> (0-based, as in the      *)
(* source) to digits 0..9.  The dictionary Solver.candidates is a function  *)
(* whose domain is its key set; the empty dictionary is the function with   *)
(* empty domain.  A candidate list is modelled as the set of its members:   *)
(* every list the program builds is strictly ascending (get_values builds   *)
(* it ascending, and filtering and list.remove keep the order), so list     *)
(* equality is set equality and list.remove is set difference.              *)
(*                                                                          *)
(* One step of the model is one test of a rule's `while revised` (going on  *)
(* to the body, or returning from the rule), one run of the body of that    *)
(* loop, one test of solve's `while any(changes)`, or the final `if` of     *)
(* solve.                                                                   *)
(***************************************************************************)
EXTENDS Integers, Sequences, FiniteSets, TLC

VARIABLES board, initial_board, candidates, pc, n, revised, changes_made,
          all_changes, changes, outcome,
          rounds, assigned_by, solutions   \* history variables

vars == <<board, initial_board, candidates, pc, n, revised, changes_made,
          all_changes, changes, outcome, rounds, assigned_by, solutions>>

----------------------------------------------------------------------------
(* Geometry                                                                 *)

Digits == 1..9

Cells == (0..8) \X (0..8)

\* the cells in the order of `for i in range(9) for j in range(9)`
AllCells == [k \in 1..81 |-> <<(k - 1) \div 9, (k - 1) % 9>>]

Range(s) == {s[k] : k \in DOMAIN s}

\* a defective variant of any: the truth value of the list itself, as in
\* `while changes:`
any_nonempty(s) == s # << >>

\* any() of a list of booleans
any(s) == \E k \in DOMAIN s : s[k]

\* the empty dictionary
EmptyDict == [c \in {} |-> {}]

----------------------------------------------------------------------------
(* class Sudoku                                                             *)

\* the values of row `row` that are assigned (or the zeros, if not assigned)
get_row(b, row, assigned) ==
    {v \in {b[<<row, j>>] : j \in 0..8} : (v # 0) = assigned}

get_col(b, col, assigned) ==
    {v \in {b[<<i, col>>] : i \in 0..8} : (v # 0) = assigned}

get_9x9(b, pos, assigned) ==
    LET row_9x9 == pos[1] \div 3
        col_9x9 == pos[2] \div 3
    IN  {v \in {b[<<i, j>>] : i \in (row_9x9 * 3)..(row_9x9 * 3 + 2),
                              j \in (col_9x9 * 3)..(col_9x9 * 3 + 2)} :
            (v # 0) = assigned}

\* the 9 cells of box pos_9x9 in the order of the list comprehension
box_cells(pos_9x9) ==
    [k \in 1..9 |-> <<pos_9x9[1] * 3 + (k - 1) \div 3,
                      pos_9x9[2] * 3 + ((k - 1) % 3)>>]

\* get_9x9_indices(pos_9x9) with the default assigned=False
get_9x9_indices(b, pos_9x9) ==
    SelectSeq(box_cells(pos_9x9), LAMBDA p : b[p] = 0)

get_values(b, pos, assigned) ==
    {i \in 1..9 : i \notin (get_row(b, pos[1], assigned)
                            \cup get_col(b, pos[2], assigned)
                            \cup get_9x9(b, pos, assigned))}

get_unassigned_indices(b) == SelectSeq(AllCells, LAMBDA p : b[p] = 0)

is_consistent(b) ==
    \A p \in Cells : b[p] # 0 => b[p] \in get_values(b, p, FALSE)

is_complete(b) == \A p \in Cells : b[p] # 0

----------------------------------------------------------------------------
(* class Solver: domain maintenance                                         *)

\* a defective variant of update_candidates: the dictionary is rebuilt from
\* the board alone and forgets the eliminations recorded in it
update_candidates_rebuilt(b, cands) ==
    [index \in Range(get_unassigned_indices(b)) |->
        get_values(b, index, TRUE)]

update_candidates(b, cands) ==
    IF DOMAIN cands # {}
    THEN [index \in Range(get_unassigned_indices(b)) |->
             {i \in get_values(b, index, TRUE) : i \in cands[index]}]
    ELSE [index \in Range(get_unassigned_indices(b)) |->
             get_values(b, index, TRUE)]

\* the keys of a dictionary in insertion order: every dictionary the
\* program builds is filled in the order of get_unassigned_indices
keys(cands) == SelectSeq(AllCells, LAMBDA p : p \in DOMAIN cands)

\* the unassigned cells of row i and of column i, as the rules list them
row_cells(b, i) ==
    SelectSeq([k \in 1..9 |-> <<i, k - 1>>], LAMBDA p : b[p] = 0)

col_cells(b, i) ==
    SelectSeq([k \in 1..9 |-> <<k - 1, i>>], LAMBDA p : b[p] = 0)

\* the box positions in the order `for i in range(3) for j in range(3)`
areas_9x9 == [k \in 1..9 |-> <<(k - 1) \div 3, (k - 1) % 3>>]

----------------------------------------------------------------------------
(* A `for` loop: the iterations lo..hi of `body`, in order.  The solver     *)
(* state a loop threads through its iterations is the record                *)
(*   [board, candidates, revised, assigned]                                 *)
(* where `assigned` collects the cells the iterations filled.  The state    *)
(* left by the first half of the iterations is a value before the second    *)
(* half starts from it.                                                     *)

RECURSIVE for_range(_, _, _, _)
for_range(body(_, _), lo, hi, st) ==
    IF lo > hi THEN st
    ELSE IF lo = hi THEN body(lo, st)
    ELSE LET mid == (lo + hi) \div 2
         IN  CHOOSE after \in
                 {for_range(body, mid + 1, hi, half) :
                      half \in {for_range(body, lo, mid, st)}} : TRUE

----------------------------------------------------------------------------
(* check_naked_single: one iteration of `while revised`                     *)

\* the body of `for index, candidate in self.candidates.items()`; the loop
\* runs over the dictionary object bound when the loop starts (snap), while
\* update_candidates rebinds self.candidates to a new dictionary
naked_single_item(index, snap, st) ==
    LET candidate == snap[index]
    IN  IF Cardinality(candidate) = 1
        THEN LET b1 == [st.board EXCEPT
                           ![index] = CHOOSE v \in candidate : TRUE]
             IN  [board |-> b1,
                  candidates |-> update_candidates(b1, st.candidates),
                  revised |-> TRUE,
                  assigned |-> st.assigned \cup {index}]
        ELSE st

naked_single_items(items, snap, st) ==
    for_range(LAMBDA k, s : naked_single_item(items[k], snap, s),
              1, Len(items), st)

naked_single_pass(b, cands) ==
    LET st == naked_single_items(keys(cands), cands,
                  [board |-> b, candidates |-> cands, revised |-> FALSE,
                   assigned |-> {}])
    IN  [st EXCEPT !.candidates = update_candidates(st.board, st.candidates)]

----------------------------------------------------------------------------
(* The units in the order a `while revised` iteration visits them: the 9    *)
(* boxes, then for i in range(9) row i followed by column i.  The list of   *)
(* unassigned cells of a unit is computed from the board when the unit is   *)
(* visited.                                                                 *)

unit_cells(b, u) ==
    IF u <= 9 THEN get_9x9_indices(b, areas_9x9[u])
    ELSE IF (u - 10) % 2 = 0 THEN row_cells(b, (u - 10) \div 2)
    ELSE col_cells(b, (u - 10) \div 2)

\* check_all_pointing visits only the rows and columns
line_cells(b, u) ==
    IF (u - 1) % 2 = 0 THEN row_cells(b, (u - 1) \div 2)
    ELSE col_cells(b, (u - 1) \div 2)

\* a dictionary without one key (dict.pop)
pop(cands, cell) == [c \in DOMAIN cands \ {cell} |-> cands[c]]

----------------------------------------------------------------------------
(* check_hidden_single: one iteration of `while revised`                    *)

\* `for key, value in check.items()`: check was filled before the loop
hidden_single_key(check, key, st) ==
    LET value == check[key]
    IN  IF Len(value) = 1 /\ value[1] \in DOMAIN st.candidates
        THEN LET b1 == [st.board EXCEPT ![value[1]] = key]
             IN  [board |-> b1,
                  candidates |->
                      update_candidates(b1, pop(st.candidates, value[1])),
                  revised |-> TRUE,
                  assigned |-> st.assigned \cup {value[1]}]
        ELSE st

hidden_single_keys(check, st) ==
    for_range(LAMBDA key, s : hidden_single_key(check, key, s), 1, 9, st)

\* the inner function check_hidden(cells) of check_hidden_single
check_hidden(cells, st) ==
    LET check == [d \in 1..9 |->
                     SelectSeq(cells, LAMBDA cell : d \in st.candidates[cell])]
    IN  hidden_single_keys(check, st)

\* the body of `while revised`; each visit is
\* `revised = False if not check_hidden(...) and not revised else True`
hidden_single_unit(u, st) ==
    LET r == check_hidden(unit_cells(st.board, u),
                          [st EXCEPT !.revised = FALSE])
    IN  [r EXCEPT !.revised = IF ~r.revised /\ ~st.revised
                              THEN FALSE ELSE TRUE]

hidden_single_pass(b, cands) ==
    for_range(hidden_single_unit, 1, 27,
              [board |-> b, candidates |-> cands,
               revised |-> FALSE, assigned |-> {}])

----------------------------------------------------------------------------
(* check_naked_candidates(n): one iteration of `while revised`              *)

\* a defective variant of get_cells_with_candidate: the cells whose list has
\* the length of `candidate`, not its contents
get_cells_with_candidate_len(cands, candidate, cells) ==
    SelectSeq(cells, LAMBDA cell :
        cell \in DOMAIN cands
        /\ Cardinality(cands[cell]) = Cardinality(candidate))

get_cells_with_candidate(cands, candidate, cells) ==
    SelectSeq(cells, LAMBDA cell :
        cell \in DOMAIN cands /\ cands[cell] = candidate)

\* `for cell in cells` of the inner function check_naked(cells)
\* a defective variant of naked_cell: only the first digit of the list of
\* `cell` is removed from the other cells of the unit
naked_cell_first(cells, cell, nn, st) ==
    LET cands == st.candidates
    IN  IF Cardinality(cands[cell]) # nn THEN st
        ELSE LET cells_with_same_candidate ==
                     get_cells_with_candidate(cands, cands[cell], cells)
                 others == Range(cells) \ Range(cells_with_same_candidate)
                 first == {CHOOSE d \in cands[cell] :
                              \A e \in cands[cell] : d <= e}
             IN  IF Len(cells_with_same_candidate) = nn
                 THEN [st EXCEPT
                         !.candidates =
                             [c \in DOMAIN cands |->
                                 IF c \in others
                                 THEN cands[c] \ first
                                 ELSE cands[c]],
                         !.revised = st.revised \/
                             \E c \in others : cands[c] \cap first # {}]
                 ELSE st

naked_cell(cells, cell, nn, st) ==
    LET cands == st.candidates
    IN  IF Cardinality(cands[cell]) # nn THEN st
        ELSE LET cells_with_same_candidate ==
                     get_cells_with_candidate(cands, cands[cell], cells)
                 others == Range(cells) \ Range(cells_with_same_candidate)
             IN  IF Len(cells_with_same_candidate) = nn
                 THEN [st EXCEPT
                         !.candidates =
                             [c \in DOMAIN cands |->
                                 IF c \in others
                                 THEN cands[c] \ cands[cell]
                                 ELSE cands[c]],
                         !.revised = st.revised \/
                             \E c \in others :
                                 cands[c] \cap cands[cell] # {}]
                 ELSE st

\* the inner function check_naked(cells) of check_naked_candidates
check_naked(cells, nn, st) ==
    for_range(LAMBDA k, s : naked_cell(cells, cells[k], nn, s),
              1, Len(cells), st)

\* the body of `while revised`; each visit is
\* `revised = False if not check_naked(...) and not revised else True`
naked_unit(u, nn, st) ==
    LET r == check_naked(unit_cells(st.board, u), nn,
                         [st EXCEPT !.revised = FALSE])
    IN  [r EXCEPT !.revised = IF ~r.revised /\ ~st.revised
                              THEN FALSE ELSE TRUE]

naked_candidates_pass(b, cands, nn) ==
    for_range(LAMBDA u, s : naked_unit(u, nn, s), 1, 27,
              [board |-> b, candidates |-> cands,
               revised |-> FALSE, assigned |-> {}])

----------------------------------------------------------------------------
(* check_hidden_candidates(n): one iteration of `while revised`             *)

\* itertools.combinations(range(lo, 10), k), in its (lexicographic) order
RECURSIVE combinations_from(_, _)
combinations_from(lo, k) ==
    IF k = 0 THEN << <<>> >>
    ELSE IF lo + k - 1 > 9 THEN << >>
    ELSE LET rest == combinations_from(lo + 1, k - 1)
         IN  [j \in 1..Len(rest) |-> <<lo>> \o rest[j]]
             \o combinations_from(lo + 1, k)

combinations2 == combinations_from(1, 2)

combinations3 == combinations_from(1, 3)

combinations4 == combinations_from(1, 4)

combinations(nn) ==
    IF nn = 2 THEN combinations2
    ELSE IF nn = 3 THEN combinations3
    ELSE combinations4

\* one iteration of `for combination, c in check.items()`: check was
\* filled before the loop
\* a defective variant of hidden_combination: the test `len(c) == n` is
\* left out, so the cells are restricted whenever the unit has the n digits
hidden_combination_unguarded(combs, check, k, nn, st) ==
    LET combination == Range(combs[k])
        c == check[k]
        cands == st.candidates
    IN  IF Cardinality(UNION {cands[i] \cap combination : i \in c}) = nn
        THEN [st EXCEPT
                !.candidates =
                    [cell \in DOMAIN cands |->
                        IF cell \in c
                        THEN cands[cell] \cap combination
                        ELSE cands[cell]],
                !.revised = st.revised \/
                    \E cell \in c :
                        cands[cell] \cap combination # cands[cell]]
        ELSE st

hidden_combination(combs, check, k, nn, st) ==
    LET combination == Range(combs[k])
        c == check[k]
        cands == st.candidates
    IN  IF Cardinality(c) = nn
           /\ Cardinality(UNION {cands[i] \cap combination : i \in c}) = nn
        THEN [st EXCEPT
                !.candidates =
                    [cell \in DOMAIN cands |->
                        IF cell \in c
                        THEN cands[cell] \cap combination
                        ELSE cands[cell]],
                !.revised = st.revised \/
                    \E cell \in c :
                        cands[cell] \cap combination # cands[cell]]
        ELSE st

\* the inner function check_hidden(cells) of check_hidden_candidates
check_hidden_n(cells, nn, st) ==
    LET combs == combinations(nn)
        check == [k \in 1..Len(combs) |->
                     {cell \in Range(cells) :
                         \E i \in Range(combs[k]) : i \in st.candidates[cell]}]
    IN  for_range(LAMBDA k, s : hidden_combination(combs, check, k, nn, s),
                  1, Len(combs), st)

\* the body of `while revised`
hidden_unit(u, nn, st) ==
    LET r == check_hidden_n(unit_cells(st.board, u), nn,
                            [st EXCEPT !.revised = FALSE])
    IN  [r EXCEPT !.revised = IF ~r.revised /\ ~st.revised
                              THEN FALSE ELSE TRUE]

hidden_candidates_pass(b, cands, nn) ==
    for_range(LAMBDA u, s : hidden_unit(u, nn, s), 1, 27,
              [board |-> b, candidates |-> cands,
               revised |-> FALSE, assigned |-> {}])

----------------------------------------------------------------------------
(* check_all_pointing: one iteration of `while revised`                     *)

\* a defective variant of remove_from: `in_revised = True` outside the
\* `try`, so a removal that removes nothing is reported as a change
remove_from_reported(st, targets, d) ==
    [st EXCEPT
       !.candidates = [c \in DOMAIN st.candidates |->
                          IF c \in targets THEN st.candidates[c] \ {d}
                          ELSE st.candidates[c]],
       !.revised = st.revised \/ targets # {}]

\* a defective variant of remove_from: a cell left with one candidate is
\* written to the board at once
remove_from_assigning(st, targets, d) ==
    LET cands == [c \in DOMAIN st.candidates |->
                     IF c \in targets THEN st.candidates[c] \ {d}
                     ELSE st.candidates[c]]
    IN  [st EXCEPT
           !.candidates = cands,
           !.board = [p \in Cells |->
                         IF p \in targets /\ p \in DOMAIN cands
                            /\ st.board[p] = 0 /\ Cardinality(cands[p]) = 1
                         THEN CHOOSE v \in cands[p] : TRUE
                         ELSE st.board[p]],
           !.revised = st.revised \/ \E c \in targets : d \in st.candidates[c]]

\* remove digit d from the candidates of every cell of `targets`
\* (`try: self.candidates[c].remove(d) ... except: pass`)
remove_from(st, targets, d) ==
    [st EXCEPT
       !.candidates = [c \in DOMAIN st.candidates |->
                          IF c \in targets THEN st.candidates[c] \ {d}
                          ELSE st.candidates[c]],
       !.revised = st.revised \/ \E c \in targets : d \in st.candidates[c]]

\* a defective variant of pointing_digit: the digit is removed from the rest
\* of the line only, never from the box of the pointing cells
pointing_digit_line_only(cells, check, check_candidate, i, d, st) ==
    LET row_cols == IF i = 0 THEN check[d].rows ELSE check[d].cols
    IN  IF row_cols = {} \/ Cardinality(row_cols) # 1 THEN st
        ELSE LET rc == CHOOSE x \in row_cols : TRUE
                 line == {IF i = 0 THEN <<rc, j>> ELSE <<j, rc>> : j \in 0..8}
             IN  remove_from(st,
                     {p \in line : p \in DOMAIN st.candidates
                                   /\ p \notin Range(cells)}, d)

\* the body of `for d, row_cols in check.items()` for tmp[i] = "rows"
\* (i = 0, axis 1: the row index of a cell) or "cols" (i = 1, axis 2)
pointing_digit(cells, check, check_candidate, i, d, st) ==
    LET row_cols == IF i = 0 THEN check[d].rows ELSE check[d].cols
        axis == i + 1
        other == 2 - i
    IN  IF row_cols = {} \/ Cardinality(row_cols) # 1 THEN st
        ELSE LET rc == CHOOSE x \in row_cols : TRUE
                 line == {IF i = 0 THEN <<rc, j>> ELSE <<j, rc>> : j \in 0..8}
                 st1 == remove_from(st,
                            {p \in line : p \in DOMAIN st.candidates
                                          /\ p \notin Range(cells)}, d)
                 pointing_cells == {k \in check_candidate[d] : k[axis] = rc}
             IN  IF Cardinality({k[other] \div 3 : k \in pointing_cells}) = 1
                 THEN LET k0 == CHOOSE k \in pointing_cells : TRUE
                          area == IF i = 0
                                  THEN <<rc \div 3, k0[2] \div 3>>
                                  ELSE <<k0[1] \div 3, rc \div 3>>
                      IN  remove_from(st1,
                              Range(get_9x9_indices(st1.board, area))
                                  \ pointing_cells, d)
                 ELSE st1

\* `for i in range(2): for d, row_cols in check.items()`
pointing_digits(cells, check, check_candidate, st) ==
    for_range(LAMBDA i, si :
                  for_range(LAMBDA d, sd :
                                pointing_digit(cells, check, check_candidate,
                                               i, d, sd),
                            1, 9, si),
              0, 1, st)

\* the inner function check_pointing(cells)
check_pointing(cells, st) ==
    LET check_candidate ==
            [d \in 1..9 |-> {cell \in Range(cells) : d \in st.candidates[cell]}]
        check == [d \in 1..9 |->
                     [rows |-> {cell[1] : cell \in check_candidate[d]},
                      cols |-> {cell[2] : cell \in check_candidate[d]}]]
    IN  pointing_digits(cells, check, check_candidate, st)

\* the body of `while revised`
pointing_unit(u, st) ==
    LET r == check_pointing(line_cells(st.board, u),
                            [st EXCEPT !.revised = FALSE])
    IN  [r EXCEPT !.revised = IF ~r.revised /\ ~st.revised
                              THEN FALSE ELSE TRUE]

pointing_pass(b, cands) ==
    for_range(pointing_unit, 1, 18,
              [board |-> b, candidates |-> cands,
               revised |-> FALSE, assigned |-> {}])

----------------------------------------------------------------------------
(* Reference notions the properties are stated with                         *)

\* two distinct cells of one row, column or box
Peers(p, q) ==
    /\ p # q
    /\ \/ p[1] = q[1]
       \/ p[2] = q[2]
       \/ p[1] \div 3 = q[1] \div 3 /\ p[2] \div 3 = q[2] \div 3

\* no two assigned cells of one unit hold the same digit
Consistent(b) ==
    \A p \in Cells : b[p] # 0 =>
        \A q \in Cells : Peers(p, q) => b[q] # b[p]

PeersOf == [p \in Cells |-> {q \in Cells : Peers(p, q)}]

\* the digits no peer of p holds
Legal(b, p) == (1..9) \ {b[q] : q \in PeersOf[p]}

\* the least number of legal digits of an unassigned cell
Fewest(b, blanks) ==
    CHOOSE k \in 0..9 :
        /\ \E x \in blanks : Cardinality(Legal(b, x)) = k
        /\ \A j \in 0..(k - 1) :
               \A x \in blanks : Cardinality(Legal(b, x)) # j

\* the valid completions of a board: the complete consistent boards that
\* agree with it on its assigned cells (searched over an unassigned cell
\* with the fewest legal digits)
RECURSIVE Fill(_)
Fill(b) ==
    LET blanks == {p \in Cells : b[p] = 0}
    IN  IF blanks = {} THEN {b}
        ELSE LET fewest == Fewest(b, blanks)
                 p == CHOOSE x \in blanks : Cardinality(Legal(b, x)) = fewest
             IN  UNION {Fill([b EXCEPT ![p] = d]) : d \in Legal(b, p)}

Completions(b) == IF Consistent(b) THEN Fill(b) ELSE {}

----------------------------------------------------------------------------
(* Input boards                                                             *)

MaxPattern == 4

MaxBlank == 2

MaxRounds == 3

\* a completed valid grid, row by row
Grid ==
    << <<5,3,4,6,7,8,9,1,2>>, <<6,7,2,1,9,5,3,4,8>>, <<1,9,8,3,4,2,5,6,7>>,
       <<8,5,9,7,6,1,4,2,3>>, <<4,2,6,8,5,3,7,9,1>>, <<7,1,3,9,2,4,8,5,6>>,
       <<9,6,1,5,3,7,2,8,4>>, <<2,8,7,4,1,9,6,3,5>>, <<3,4,5,2,8,6,1,7,9>> >>

GridBoard == [p \in Cells |-> Grid[p[1] + 1][p[2] + 1]]

\* puzzle m: Grid with the cells of a pattern blanked
PatternBoard(m) ==
    [p \in Cells |->
        IF (5 * p[1] + 2 * p[2] + m + p[1] * p[2] * m) % 11 < 7
        THEN 0 ELSE GridBoard[p]]

\* Grid with the first k cells of the diagonal blanked
BlankBoard(k) ==
    [p \in Cells |-> IF p[1] = p[2] /\ p[1] < k THEN 0 ELSE GridBoard[p]]

\* a board with a given digit repeated in row 0
Duplicate(b) == [b EXCEPT ![<<0, 8>>] = b[<<0, 7>>]]

\* a consistent board that has no valid completion (row 0 lacks two digits
\* and has three unassigned cells)
DeadEndGrid ==
    << <<7,6,9,4,0,3,8,0,2>>, <<0,3,4,1,2,8,5,9,7>>, <<2,8,5,9,7,6,4,0,3>>,
       <<3,5,7,8,0,2,9,1,0>>, <<6,9,8,3,0,5,2,7,0>>, <<4,1,2,0,9,7,6,3,8>>,
       <<0,4,6,5,1,9,7,2,0>>, <<8,2,3,7,6,0,1,4,5>>, <<5,7,1,2,0,4,3,8,6>> >>

DeadEndBoard == [p \in Cells |-> DeadEndGrid[p[1] + 1][p[2] + 1]]

\* a consistent board without valid completion whose first round changes
\* nothing: (7,5) and (7,6) can both hold the digit 6 only
StallGrid ==
    << <<0,0,0,0,0,0,0,0,0>>, <<0,0,0,0,0,0,9,0,0>>, <<0,0,0,0,0,0,0,0,0>>,
       <<0,0,0,0,0,0,0,0,0>>, <<0,0,0,0,0,9,0,0,0>>, <<0,0,0,0,0,0,0,0,0>>,
       <<0,0,0,0,0,0,0,0,0>>, <<3,4,1,2,5,0,0,7,8>>, <<0,0,0,0,0,0,0,0,0>> >>

StallBoard == [p \in Cells |-> StallGrid[p[1] + 1][p[2] + 1]]

InputBoards ==
    {PatternBoard(m) : m \in 0..MaxPattern}
    \cup {BlankBoard(k) : k \in 0..MaxBlank}
    \cup {Duplicate(BlankBoard(k)) : k \in 0..MaxBlank}
    \cup {DeadEndBoard, StallBoard}

----------------------------------------------------------------------------
(* Solver.solve                                                             *)

Init ==
    /\ board \in InputBoards
    /\ initial_board = board
    /\ candidates = EmptyDict
    /\ pc = "while"
    /\ n = 2
    /\ revised = TRUE
    /\ changes_made = FALSE
    /\ all_changes = << >>
    /\ changes = <<TRUE>>
    /\ outcome = "none"
    /\ rounds = 0
    /\ assigned_by = [p \in Cells |-> IF board[p] # 0 THEN "given" ELSE "none"]
    /\ solutions = Completions(board)

\* the effect of one `while revised` iteration on the board, the dictionary
\* and the record of which rule assigned which cell
Apply(st, rule) ==
    /\ board' = st.board
    /\ candidates' = st.candidates
    /\ assigned_by' = [p \in Cells |->
                          IF p \in st.assigned THEN rule ELSE assigned_by[p]]

\* `while any(changes)` of solve; entering the round calls
\* check_all_naked, which calls check_naked_single (`revised = True`)
solve_while ==
    /\ pc = "while"
    /\ IF any(changes)
       THEN /\ changes' = << >>
            /\ all_changes' = << >>
            /\ changes_made' = FALSE
            /\ revised' = TRUE
            /\ pc' = "naked_single"
            /\ rounds' = IF rounds < MaxRounds THEN rounds + 1 ELSE rounds
       ELSE /\ pc' = "if"
            /\ UNCHANGED <<changes, all_changes, changes_made, revised,
                           rounds>>
    /\ UNCHANGED <<board, initial_board, candidates, n, outcome, assigned_by,
                   solutions>>

\* the body of a rule's `while revised` loop has run: the rule's `revised`
\* and `changes_made` after it
Iterated(st) ==
    /\ revised' = st.revised
    /\ changes_made' = (changes_made \/ st.revised)

\* at `while revised:` the loop goes on to its body
Continue(body) ==
    /\ pc' = body
    /\ UNCHANGED <<board, candidates, assigned_by, n, revised, changes_made,
                   all_changes, changes>>

\* `return changes_made`: the board and the dictionary stay, and the caller
\* starts the next rule with `revised = True`, `changes_made = False`
Return ==
    /\ revised' = TRUE
    /\ changes_made' = FALSE
    /\ UNCHANGED <<board, candidates, assigned_by>>

\* a defective variant of check_naked_single: check_all_naked goes on with
\* check_hidden_single in place of check_naked_candidates(2)
check_naked_single_then_hidden ==
    /\ \/ /\ pc = "naked_single"
          /\ IF revised
             THEN Continue("naked_single_body")
             ELSE /\ Return
                  /\ all_changes' = Append(all_changes, changes_made)
                  /\ pc' = "hidden_single"
                  /\ n' = 2
                  /\ UNCHANGED changes
       \/ /\ pc = "naked_single_body"
          /\ \E st \in {naked_single_pass(board, candidates)} :
                 Apply(st, "naked_single") /\ Iterated(st)
          /\ pc' = "naked_single"
          /\ UNCHANGED <<n, all_changes, changes>>
    /\ UNCHANGED <<initial_board, outcome, rounds, solutions>>

check_naked_single ==
    /\ \/ /\ pc = "naked_single"
          /\ IF revised
             THEN Continue("naked_single_body")
             ELSE /\ Return
                  /\ all_changes' = Append(all_changes, changes_made)
                  /\ pc' = "naked_candidates"
                  /\ n' = 2
                  /\ UNCHANGED changes
       \/ /\ pc = "naked_single_body"
          /\ \E st \in {naked_single_pass(board, candidates)} :
                 Apply(st, "naked_single") /\ Iterated(st)
          /\ pc' = "naked_single"
          /\ UNCHANGED <<n, all_changes, changes>>
    /\ UNCHANGED <<initial_board, outcome, rounds, solutions>>

\* check_naked_candidates(n) for n in range(2, 5), then the return of
\* check_all_naked
check_naked_candidates ==
    /\ \/ /\ pc = "naked_candidates"
          /\ IF revised
             THEN Continue("naked_candidates_body")
             ELSE /\ Return
                  /\ IF n < 4
                     THEN /\ n' = n + 1
                          /\ all_changes' = Append(all_changes, changes_made)
                          /\ UNCHANGED <<pc, changes>>
                     ELSE /\ n' = 2
                          /\ all_changes' = << >>
                          /\ changes' = Append(changes,
                                 any(Append(all_changes, changes_made)))
                          /\ pc' = "hidden_single"
       \/ /\ pc = "naked_candidates_body"
          /\ \E st \in {naked_candidates_pass(board, candidates, n)} :
                 Apply(st, "naked_candidates") /\ Iterated(st)
          /\ pc' = "naked_candidates"
          /\ UNCHANGED <<n, all_changes, changes>>
    /\ UNCHANGED <<initial_board, outcome, rounds, solutions>>

check_hidden_single ==
    /\ \/ /\ pc = "hidden_single"
          /\ IF revised
             THEN Continue("hidden_single_body")
             ELSE /\ Return
                  /\ all_changes' = Append(all_changes, changes_made)
                  /\ pc' = "hidden_candidates"
                  /\ n' = 2
                  /\ UNCHANGED changes
       \/ /\ pc = "hidden_single_body"
          /\ \E st \in {hidden_single_pass(board, candidates)} :
                 Apply(st, "hidden_single") /\ Iterated(st)
          /\ pc' = "hidden_single"
          /\ UNCHANGED <<n, all_changes, changes>>
    /\ UNCHANGED <<initial_board, outcome, rounds, solutions>>

\* check_hidden_candidates(n) for n in range(2, 5), then the return of
\* check_all_hidden
check_hidden_candidates ==
    /\ \/ /\ pc = "hidden_candidates"
          /\ IF revised
             THEN Continue("hidden_candidates_body")
             ELSE /\ Return
                  /\ IF n < 4
                     THEN /\ n' = n + 1
                          /\ all_changes' = Append(all_changes, changes_made)
                          /\ UNCHANGED <<pc, changes>>
                     ELSE /\ n' = 2
                          /\ all_changes' = << >>
                          /\ changes' = Append(changes,
                                 any(Append(all_changes, changes_made)))
                          /\ pc' = "pointing"
       \/ /\ pc = "hidden_candidates_body"
          /\ \E st \in {hidden_candidates_pass(board, candidates, n)} :
                 Apply(st, "hidden_candidates") /\ Iterated(st)
          /\ pc' = "hidden_candidates"
          /\ UNCHANGED <<n, all_changes, changes>>
    /\ UNCHANGED <<initial_board, outcome, rounds, solutions>>

check_all_pointing ==
    /\ \/ /\ pc = "pointing"
          /\ IF revised
             THEN Continue("pointing_body")
             ELSE /\ Return
                  /\ changes' = Append(changes, changes_made)
                  /\ pc' = "while"
                  /\ UNCHANGED <<n, all_changes>>
       \/ /\ pc = "pointing_body"
          /\ \E st \in {pointing_pass(board, candidates)} :
                 Apply(st, "pointing") /\ Iterated(st)
          /\ pc' = "pointing"
          /\ UNCHANGED <<n, all_changes, changes>>
    /\ UNCHANGED <<initial_board, outcome, rounds, solutions>>

\* the final `if` of solve
solve_if ==
    /\ pc = "if"
    /\ outcome' = IF is_complete(board) /\ is_consistent(board)
                  THEN "Solved" ELSE "Stalled"
    /\ pc' = "done"
    /\ UNCHANGED <<board, initial_board, candidates, n, revised, changes_made,
                   all_changes, changes, rounds, assigned_by, solutions>>

Next ==
    \/ solve_while
    \/ check_naked_single
    \/ check_naked_candidates
    \/ check_hidden_single
    \/ check_hidden_candidates
    \/ check_all_pointing
    \/ solve_if

Spec == Init /\ [][Next]_vars

\* the control position of solve: the statement it is at and, inside
\* `for n in range(2, 5)`, the value of n.  Every step of Next changes it.
control == <<pc, n>>

Rules == {"naked_single", "naked_candidates", "hidden_single",
          "hidden_candidates", "pointing"}

Bodies == {"naked_single_body", "naked_candidates_body", "hidden_single_body",
           "hidden_candidates_body", "pointing_body"}

Positions == {"while", "if", "done"} \cup Rules \cup Bodies

\* solve is one sequential call that nothing interrupts: as long as it has
\* not returned, a next statement exists and the interpreter executes it,
\* which moves the control position
Running == pc # "done" /\ pc' \in Positions /\ n' \in 2..4

FairSpec == Spec /\ WF_control(Running)

----------------------------------------------------------------------------
(* A whole invocation of a rule: its `while revised` loop run to the end    *)

rule_pass(rule, nn, b, cands) ==
    CASE rule = "naked_single" -> naked_single_pass(b, cands)
      [] rule = "naked_candidates" -> naked_candidates_pass(b, cands, nn)
      [] rule = "hidden_single" -> hidden_single_pass(b, cands)
      [] rule = "hidden_candidates" -> hidden_candidates_pass(b, cands, nn)
      [] rule = "pointing" -> pointing_pass(b, cands)

RECURSIVE rule_call(_, _, _, _)
rule_call(rule, nn, b, cands) ==
    LET st == rule_pass(rule, nn, b, cands)
    IN  IF st.revised
        THEN [rule_call(rule, nn, st.board, st.candidates)
                  EXCEPT !.changes_made = TRUE]
        ELSE [board |-> st.board, candidates |-> st.candidates,
              changes_made |-> FALSE]

----------------------------------------------------------------------------
(* Properties                                                               *)

\* the first update_candidates of the solve has run
Built ==
    \/ rounds > 1
    \/ rounds = 1 /\ pc # "naked_single_body"
                  /\ ~(pc = "naked_single" /\ revised)

Unassigned(b) == {p \in Cells : b[p] = 0}

\* C1: whenever solve reports Solved, the final board has no zero cell and
\* no two distinct cells of one row, column or box hold the same digit.
C1_SolvedBoardIsValid ==
    outcome = "Solved" => Unassigned(board) = {} /\ Consistent(board)

\* C2: is_consistent returns true if and only if no assigned cell shares its
\* digit with another cell of its row, column or box.
C2_IsConsistentIffNoDuplicate ==
    is_consistent(board) <=> Consistent(board)

\* C3: for an input board with a duplicate given digit in some unit, solve
\* ends in the Stalled outcome, never in Solved.
C3_DuplicateInputStalls ==
    (pc = "done" /\ ~Consistent(initial_board)) => outcome = "Stalled"

\* C4: if the input board is consistent, the board is consistent after every
\* assignment of the engine.
C4_ConsistencyPreserved ==
    Consistent(initial_board) => Consistent(board)

\* C5: soundness of eliminations: for a consistent input with at least one
\* valid completion, once the domain map is built every unassigned cell's
\* candidate set contains the digit the cell holds in each valid completion,
\* and every assigned cell holds the digit of the completion when the
\* completion is unique.
C5_EliminationsSound ==
    Built =>
        /\ \A S \in solutions : \A p \in Unassigned(board) :
               p \in DOMAIN candidates /\ S[p] \in candidates[p]
        /\ Cardinality(solutions) = 1 =>
               \A S \in solutions : \A p \in Cells :
                   board[p] # 0 => board[p] = S[p]

\* a solvable input on which a subset or pointing rule has removed a
\* candidate that the board alone does not exclude, and the engine has
\* assigned a cell
C5_Witness ==
    /\ Built
    /\ solutions # {}
    /\ \E p \in Unassigned(board) : candidates[p] # Legal(board, p)
    /\ \E q \in Cells : assigned_by[q] = "hidden_single"

\* the candidate sets of the dictionary `after` are subsets of those of
\* the dictionary `before`, and no key is added
Shrinks(before, after) ==
    \A p \in DOMAIN after :
        p \in DOMAIN before /\ after[p] \subseteq before[p]

\* C6: monotonic shrink: once the domain map is built, no step (a rule
\* iteration, or update_candidates by itself) adds a digit to the candidate
\* set of a cell that is still unassigned.
C6_MonotonicShrink ==
    [][Built =>
         /\ Shrinks(candidates, candidates')
         /\ Shrinks(candidates, update_candidates(board, candidates))]_vars

\* the recomputation after an assignment has run on a dictionary that holds
\* an elimination the board alone does not justify
C6_Witness ==
    /\ \E p \in Unassigned(board) :
           p \in DOMAIN candidates /\ candidates[p] # Legal(board, p)
    /\ \E q \in Cells : assigned_by[q] = "naked_single"

\* C7: idempotence: in every state in which solve invokes a rule, invoking
\* the rule a second time right after the first changes neither the board
\* nor the domain map and returns 'no change'.
C7_RulesIdempotent ==
    (pc \in Rules /\ revised /\ ~changes_made) =>
        LET first == rule_call(pc, n, board, candidates)
            second == rule_call(pc, n, first.board, first.candidates)
        IN  /\ second.board = first.board
            /\ second.candidates = first.candidates
            /\ ~second.changes_made

\* the size the rules decrease: unassigned cells and recorded candidates
AssignsCell == \E p \in Cells : board[p] = 0 /\ board'[p] # 0

RemovesCandidate ==
    /\ Shrinks(candidates, candidates')
    /\ \E p \in DOMAIN candidates' : candidates'[p] # candidates[p]

\* an iteration of `while revised` that reported a change
RevisedIteration == pc \in Bodies /\ revised'

\* C8: termination: solve reaches a terminal outcome; every iteration of a
\* rule's `while revised` loop that reports a change assigns a previously
\* unassigned cell or strictly removes a candidate, and solve runs another
\* round only after a reported change.
C8_Terminates ==
    /\ <>(pc = "done" /\ outcome \in {"Solved", "Stalled"})
    /\ [][RevisedIteration => AssignsCell \/ RemovesCandidate]_vars

\* solve has ended after more than one round
C8_Witness == pc = "done" /\ rounds >= 2 /\ outcome = "Stalled"

CompleteValid(b) == Unassigned(b) = {} /\ Consistent(b)

\* C9: for an input that is a completed valid grid, solve reports Solved
\* after a single round in which nothing is assigned or removed, and the
\* final board equals the input.
C9_CompleteGridSolvedAtOnce ==
    CompleteValid(initial_board) =>
        /\ rounds <= 1
        /\ board = initial_board
        /\ candidates = EmptyDict
        /\ ~changes_made /\ ~any(all_changes)
        /\ (rounds = 1 => ~any(changes))
        /\ (pc = "done" => outcome = "Solved" /\ rounds = 1)

C9_Witness ==
    CompleteValid(initial_board) /\ pc = "done" /\ outcome = "Solved"

\* C10: for a consistent input with exactly one zero cell whose digit is
\* determined by its row, column and box, solve reports Solved and the cell
\* is filled by check_naked_single.
C10_SingleBlankByNakedSingle ==
    (/\ pc = "done"
     /\ Consistent(initial_board)
     /\ Cardinality(Unassigned(initial_board)) = 1
     /\ \A p \in Unassigned(initial_board) :
            Cardinality(Legal(initial_board, p)) = 1)
    => /\ outcome = "Solved"
       /\ \A p \in Unassigned(initial_board) : assigned_by[p] = "naked_single"


----------------------------------------------------------------------------
(* Units and subsets, as the subset and intersection properties speak of    *)
(* them                                                                     *)

RowSets == {{p \in Cells : p[1] = i} : i \in 0..8}

ColSets == {{p \in Cells : p[2] = i} : i \in 0..8}

BoxSets == {{p \in Cells : p[1] \div 3 = a /\ p[2] \div 3 = b} :
               a \in 0..2, b \in 0..2}

UnitSets == RowSets \cup ColSets \cup BoxSets

\* the cells of unit U that the dictionary holds
Open(cands, U) == U \cap DOMAIN cands

\* the pairs of unit U: two cells with the same two candidates, which no
\* third cell of the unit has as its candidate set
PairSets(cands, U) ==
    {S \in SUBSET Open(cands, U) :
        /\ Cardinality(S) = 2
        /\ \A p \in S :
               /\ Cardinality(cands[p]) = 2
               /\ {q \in Open(cands, U) : cands[q] = cands[p]} = S}

DigitsOf(cands, S) == UNION {cands[p] : p \in S}

\* the rule's loop has ended and the rule is about to return
Returns(rule) == pc = rule /\ ~revised

\* the rule is being invoked: its loop has not run yet
Invoked(rule) == pc = rule /\ revised /\ ~changes_made

\* C11 as stated: for every unit in which exactly two unassigned cells have
\* the identical two-digit candidate set {a,b} when check_naked_candidates(2)
\* is invoked, after it returns no other unassigned cell of the unit has a
\* or b, and the two pair cells still have the candidate set {a,b}.
C11_NakedPairKept ==
    (Invoked("naked_candidates") /\ n = 2) =>
        LET after == rule_call("naked_candidates", 2, board, candidates).candidates
        IN  \A U \in UnitSets : \A S \in PairSets(candidates, U) :
                /\ \A q \in Open(after, U) \ S :
                       after[q] \cap DigitsOf(candidates, S) = {}
                /\ \A p \in S : after[p] = candidates[p]

\* C11 amended: for every unit in which exactly two unassigned cells have
\* the identical two-digit candidate set {a,b} when check_naked_candidates(2)
\* returns, no other unassigned cell of that unit has a or b in its
\* candidate set.
C11_NakedPairAtReturn ==
    (Returns("naked_candidates") /\ n = 2) =>
        \A U \in UnitSets : \A S \in PairSets(candidates, U) :
            \A q \in Open(candidates, U) \ S :
                candidates[q] \cap DigitsOf(candidates, S) = {}

\* check_naked_candidates(2) returns after it removed candidates, and a
\* unit holds a pair beside other unassigned cells
C11_Witness ==
    /\ Returns("naked_candidates") /\ n = 2 /\ changes_made
    /\ \E U \in UnitSets : \E S \in PairSets(candidates, U) :
           Open(candidates, U) \ S # {}

\* the groups of nn cells of unit U whose candidate sets are non-empty and
\* together hold exactly nn digits
NakedSets(cands, U, nn) ==
    {S \in SUBSET Open(cands, U) :
        /\ Cardinality(S) = nn
        /\ \A p \in S : cands[p] # {}
        /\ Cardinality(DigitsOf(cands, S)) = nn}

\* C12: naked subset of size n (n = 2,3,4): after check_naked_candidates(n)
\* returns, for every unit and every group of exactly n unassigned cells of
\* the unit whose candidate sets are non-empty and whose union is exactly n
\* digits, no other unassigned cell of the unit has any of those digits.
C12_NakedSubset ==
    Returns("naked_candidates") =>
        \A U \in UnitSets : \A S \in NakedSets(candidates, U, n) :
            \A q \in Open(candidates, U) \ S :
                candidates[q] \cap DigitsOf(candidates, S) = {}

\* the unassigned cells of unit U that hold a digit of D
Holders(cands, U, D) == {p \in Open(cands, U) : cands[p] \cap D # {}}

\* the sets D of nn digits, each a candidate of some cell of unit U, that are
\* held by exactly nn unassigned cells of U
HiddenSets(cands, U, nn) ==
    {D \in SUBSET Digits :
        /\ Cardinality(D) = nn
        /\ \A d \in D : \E p \in Open(cands, U) : d \in cands[p]
        /\ Cardinality(Holders(cands, U, D)) = nn}

\* every candidate that `after` lacks and `before` has was removed from one
\* of the nn holders of a set D of HiddenSets of a unit of its cell in
\* `before`, and is not a digit of D
HiddenJustified(before, after, nn) ==
    \A p \in DOMAIN before : \A d \in before[p] \ after[p] :
        \E U \in UnitSets : \E D \in HiddenSets(before, U, nn) :
            p \in Holders(before, U, D) /\ d \notin D

\* one iteration of `while revised` of check_hidden_candidates(nn), unit by
\* unit as hidden_candidates_pass runs it, recording in `ok` whether every
\* call check_hidden(cells) removed justified candidates only
hidden_candidates_audit(b, cands, nn) ==
    for_range(LAMBDA u, a :
                  LET r == hidden_unit(u, nn, a.st)
                  IN  [st |-> r,
                       ok |-> a.ok /\ HiddenJustified(a.st.candidates,
                                                      r.candidates, nn)],
              1, 27,
              [st |-> [board |-> b, candidates |-> cands,
                       revised |-> FALSE, assigned |-> {}],
               ok |-> TRUE])

\* C13: hidden subset of size n (n = 2,3,4): after check_hidden_candidates(n)
\* returns, for every unit and every set D of n digits, each a candidate of
\* some cell of the unit, that exactly n unassigned cells of the unit hold,
\* each of those n cells has a candidate set contained in D; and each call
\* check_hidden(cells) of the rule removes a candidate from a cell only when
\* such a set D exists for a unit of that cell as the call starts (the cell
\* being one of the n cells, the candidate no digit of D).
C13_HiddenSubset ==
    /\ Returns("hidden_candidates") =>
           \A U \in UnitSets : \A D \in HiddenSets(candidates, U, n) :
               \A p \in Holders(candidates, U, D) : candidates[p] \subseteq D
    /\ pc = "hidden_candidates_body" =>
           hidden_candidates_audit(board, candidates, n).ok

\* check_hidden_candidates(n) has removed candidates and returns with a
\* hidden subset in some unit
C13_Witness ==
    /\ Returns("hidden_candidates") /\ changes_made
    /\ \E U \in UnitSets : HiddenSets(candidates, U, n) # {}

LineSets == RowSets \cup ColSets

\* the unassigned cells of unit U that have candidate d
Having(cands, U, d) == {p \in Open(cands, U) : d \in cands[p]}

\* in unit U digit d is a candidate, and of cells of unit V only
Confined(cands, U, V, d) ==
    Having(cands, U, d) # {} /\ Having(cands, U, d) \subseteq V

\* C14: intersection elimination, line-to-box: after check_all_pointing
\* returns, for every row or column L, every box B and every digit d such
\* that some unassigned cell of L has candidate d and all such cells of L
\* lie in B, no unassigned cell of B outside L has candidate d.
C14_LineToBox ==
    Returns("pointing") =>
        \A L \in LineSets : \A B \in BoxSets : \A d \in Digits :
            Confined(candidates, L, B, d) =>
                \A q \in Open(candidates, B) \ L : d \notin candidates[q]

\* check_all_pointing has removed candidates and returns with a digit of a
\* line confined to a box that has other unassigned cells
C14_Witness ==
    /\ Returns("pointing") /\ changes_made
    /\ \E L \in LineSets : \E B \in BoxSets : \E d \in Digits :
           /\ Confined(candidates, L, B, d)
           /\ Open(candidates, B) \ L # {}

\* C15: intersection elimination, box-to-line: after check_all_pointing
\* returns, for every box B, every row or column L and every digit d such
\* that some unassigned cell of B has candidate d and all such cells of B
\* lie in L, no unassigned cell of L outside B has candidate d.
C15_BoxToLine ==
    Returns("pointing") =>
        \A B \in BoxSets : \A L \in LineSets : \A d \in Digits :
            Confined(candidates, B, L, d) =>
                \A q \in Open(candidates, L) \ B : d \notin candidates[q]

\* the board and the dictionary after rule(nn) is called in state s
after_call(rule, nn, s) ==
    LET r == rule_call(rule, nn, s.board, s.candidates)
    IN  [board |-> r.board, candidates |-> r.candidates]

\* check_all_naked: check_naked_single, then check_naked_candidates(i) for
\* i in range(2, 5)
check_all_naked(s) ==
    after_call("naked_candidates", 4,
        after_call("naked_candidates", 3,
            after_call("naked_candidates", 2,
                after_call("naked_single", 2, s))))

\* check_all_hidden: check_hidden_single, then check_hidden_candidates(i)
\* for i in range(2, 5)
check_all_hidden(s) ==
    after_call("hidden_candidates", 4,
        after_call("hidden_candidates", 3,
            after_call("hidden_candidates", 2,
                after_call("hidden_single", 2, s))))

\* one round of solve: the list [check_all_naked(), check_all_hidden(),
\* check_all_pointing()]
round(s) == after_call("pointing", 2, check_all_hidden(check_all_naked(s)))

\* C16: the terminal state is a fixpoint: in the state in which solve leaves
\* its loop, no unassigned cell has a candidate set of exactly one member,
\* and running the whole rule battery once more changes neither the board
\* nor the domain map.
C16_TerminalFixpoint ==
    pc = "if" =>
        /\ \A p \in DOMAIN candidates : Cardinality(candidates[p]) # 1
        /\ round([board |-> board, candidates |-> candidates])
               = [board |-> board, candidates |-> candidates]

\* the rule a position of solve belongs to
RuleOf(position) ==
    CASE position \in {"naked_single", "naked_single_body"} -> "naked_single"
      [] position \in {"naked_candidates", "naked_candidates_body"} ->
             "naked_candidates"
      [] position \in {"hidden_single", "hidden_single_body"} ->
             "hidden_single"
      [] position \in {"hidden_candidates", "hidden_candidates_body"} ->
             "hidden_candidates"
      [] position \in {"pointing", "pointing_body"} -> "pointing"
      [] OTHER -> position

\* the rule call solve is in: the rule and, for a subset rule, its n
StageOf(position, nn) ==
    <<RuleOf(position),
      IF RuleOf(position) \in {"naked_candidates", "hidden_candidates"}
      THEN nn ELSE 0>>

\* a round in which both single rules come before the subset rules
SinglesFirst ==
    << <<"while", 0>>, <<"naked_single", 0>>, <<"hidden_single", 0>>,
       <<"naked_candidates", 2>>, <<"naked_candidates", 3>>,
       <<"naked_candidates", 4>>, <<"hidden_candidates", 2>>,
       <<"hidden_candidates", 3>>, <<"hidden_candidates", 4>>,
       <<"pointing", 0>>, <<"while", 0>> >>

\* a round in which the naked rules come before the hidden rules
NakedFirst ==
    << <<"while", 0>>, <<"naked_single", 0>>, <<"naked_candidates", 2>>,
       <<"naked_candidates", 3>>, <<"naked_candidates", 4>>,
       <<"hidden_single", 0>>, <<"hidden_candidates", 2>>,
       <<"hidden_candidates", 3>>, <<"hidden_candidates", 4>>,
       <<"pointing", 0>>, <<"while", 0>> >>

\* this step goes from one rule call to the next one of `order`, or from
\* the loop of solve to its end
InOrder(order) ==
    StageOf(pc', n') # StageOf(pc, n) =>
        \/ \E i \in 1..(Len(order) - 1) :
               order[i] = StageOf(pc, n) /\ order[i + 1] = StageOf(pc', n')
        \/ pc = "while" /\ pc' = "if"
        \/ pc = "if" /\ pc' = "done"

\* C17: rule order within one round of solve: naked-single and
\* hidden-single are both run before any naked-subset rule runs, then naked
\* subsets for n = 2,3,4, then hidden subsets for n = 2,3,4, then
\* intersection elimination; no subset rule is executed between the
\* naked-single step and the hidden-single step of a round.
C17_SinglesBeforeSubsets == [][InOrder(SinglesFirst)]_vars

\* C17 as the code has it: naked-single is run until a pass of its loop
\* assigns no cell, then naked subsets for n = 2,3,4, then hidden-single to
\* its fixpoint, then hidden subsets for n = 2,3,4, then intersection
\* elimination.
C17_NakedBeforeHidden ==
    [][/\ InOrder(NakedFirst)
       /\ (StageOf(pc', n') # StageOf(pc, n) /\ pc \in Rules) => ~revised
       /\ (pc = "hidden_single" /\ pc' = "hidden_candidates") =>
              LET st == hidden_single_pass(board, candidates)
              IN  st.board = board /\ st.candidates = candidates]_vars

\* a round has run all its rules, and one of them has made a change
C17_Witness == pc = "while" /\ rounds >= 1 /\ Len(changes) = 3 /\ any(changes)

\* the digits assigned to peers of cell p since the pass of state st began
AssignedToPeers(st, p) == {st.board[q] : q \in PeersOf[p] \cap st.assigned}

\* one iteration of `while revised` of check_naked_single, item by item as
\* naked_single_pass runs it, recording in `ok` whether every candidate list
\* the `for` read was free of the digits assigned earlier in the pass to a
\* peer of its cell
naked_single_audit(b, cands) ==
    LET items == keys(cands)
    IN  for_range(LAMBDA k, a :
                      [st |-> naked_single_item(items[k], cands, a.st),
                       ok |-> a.ok /\ cands[items[k]]
                                      \cap AssignedToPeers(a.st, items[k]) = {}],
                  1, Len(items),
                  [st |-> [board |-> b, candidates |-> cands,
                           revised |-> FALSE, assigned |-> {}],
                   ok |-> TRUE])

\* C18: domain-map shape: from the first update_candidates on, whenever a
\* rule returns, the key set of the domain map is the set of cells whose
\* board value is 0 and every candidate set is a subset of {1..9} minus the
\* digits assigned in the cell's row, column and box; and whenever
\* check_naked_single reads a cell's candidate set to decide an assignment,
\* that set excludes every digit assigned earlier in the same invocation to
\* a peer of the cell.
C18_DomainMapShape ==
    /\ (Built /\ \E rule \in Rules : Returns(rule)) =>
           /\ DOMAIN candidates = Unassigned(board)
           /\ \A p \in DOMAIN candidates : candidates[p] \subseteq Legal(board, p)
    /\ pc = "naked_single_body" => naked_single_audit(board, candidates).ok

\* the first two parts of C18 alone
C18_ShapeAtReturn ==
    (Built /\ \E rule \in Rules : Returns(rule)) =>
        /\ DOMAIN candidates = Unassigned(board)
        /\ \A p \in DOMAIN candidates : candidates[p] \subseteq Legal(board, p)

\* the positions at which a rule that only removes candidates runs its loop
EliminationBodies ==
    {"naked_candidates_body", "hidden_candidates_body", "pointing_body"}

\* C19: givens are preserved and the board is written only by forced-value
\* rules: throughout solve a cell whose value is non-zero never changes
\* value again, every assigned value is in 1..9, and
\* check_naked_candidates, check_hidden_candidates and check_all_pointing
\* leave the board unchanged.
C19_GivensPreserved ==
    [][/\ \A p \in Cells : board[p] # 0 => board'[p] = board[p]
       /\ \A p \in Cells : board'[p] \in 0..9
       /\ pc \in EliminationBodies => board' = board
       /\ \A p \in Cells :
              initial_board[p] # 0 => board'[p] = initial_board[p]]_vars

\* cells have been assigned, and check_all_pointing has removed candidates
\* and returns
C19_Witness ==
    /\ Returns("pointing") /\ changes_made
    /\ \E p \in Cells : initial_board[p] = 0 /\ board[p] # 0
    /\ \E p \in Cells : initial_board[p] # 0

====
